---- MODULE Spec2Model ----
(***************************************************************************)
(* Model of word_language_model/main.py: the data pipeline (batchify,      *)
(* get_batch), the evaluation pass of one worker process, and the epoch    *)
(* loop of main() run by a group of worker processes.                      *)
(*                                                                         *)
(* Numbers.  Losses and learning rates are Python floats in the program.   *)
(* The model keeps them exact: a loss is a natural number, the value       *)
(* returned by evaluate() is a fraction [num, den], and learning rates are *)
(* integers counted in units of 1/LrDen.                                   *)
(***************************************************************************)
EXTENDS Integers, Sequences, FiniteSets, TLC

(* ------------------------------ bounds -------------------------------- *)
MaxLen == 8
MaxBsz == 3
MaxNegBsz == 1
MaxBptt == 2
MaxWorld == 2
MaxLoss == 2

LenValues == 0..MaxLen
BszValues == (0 - MaxNegBsz)..MaxBsz
BpttValues == 1..MaxBptt
WorldValues == 1..MaxWorld
Losses == 0..MaxLoss

VARIABLES
    (* one worker process running batchify and one evaluate() pass *)
    tokens,        \* the flat token sequence handed to batchify (corpus.valid, ...)
    bsz,           \* the batch width handed to batchify (args.batch_size, eval_batch_size)
    bptt,          \* args.bptt
    rank,          \* args.rank
    world_size,    \* args.world_size
    phase,         \* "load" | "eval" | "returned" | "failed"
    data_source,   \* what batchify returned (a matrix, or an error)
    k,             \* position of evaluate's for loop in its range
    total_loss,    \* evaluate's accumulator
    wins,          \* the (data, targets) pairs get_batch returned, with loss
    ret,           \* what evaluate returned
    (* main() run by the workers 0..world_size-1, one process each *)
    epochs,        \* args.epochs
    train_rows,    \* train_data.size(0)
    pc,            \* pc[w]: where worker w is in main()
    epoch,         \* epoch[w]: the loop variable of main's for loop
    lr,            \* lr[w]: main's local lr
    optimizer_lr,  \* optimizer_lr[w]: optimizer.param_groups[0]['lr']
    lr2,           \* lr2[w]: train's saved learning rate
    seq_len,       \* seq_len[w]: the length train drew at entry
    batch,         \* batch[w]: position of train's for loop in its range
    best_val_loss, \* best_val_loss[w]: <<>> is None, <<x>> is the float x
    val_loss,      \* val_loss[w]
    params,        \* params[w]: the worker's model parameters
    entered,       \* entered[w]: backward passes (gradient all-reduces) begun
    ckpt,          \* ckpt[w]: the file args.save: <<>> or <<[epoch, params]>>
    calls,         \* calls[w]: the passes run so far, in order
    incr,          \* incr[w]: the validation losses seen so far strictly increase
    decr,          \* decr[w]: the validation losses seen so far strictly decrease
    best_seen,     \* best_seen[w]: <<>> or <<[loss, epoch]>>, the lowest validation
                   \* loss seen so far and the first epoch that had it
    nosave,        \* nosave[w]: the epochs so far that wrote no checkpoint
    (* one worker running main() statement by statement, with its hidden state *)
    model_type,    \* args.model: "LSTM" or "GRU"
    eval_rows,     \* val_data.size(0) and test_data.size(0)
    at,            \* where the worker is: "loop", "train", "evaluate", "for",
                   \* "body", "return", "done"; "idle" when not looked at
    stmt,          \* the statement of the loop body that runs next
    ep,            \* the loop variable of main's for loop
    pass,          \* the running call of train() or evaluate(): its number,
                   \* kind ("train", "val", "test"), batch width and stream rows
    bptt2,         \* twice train's local bptt (args.bptt or args.bptt / 2.)
    win,           \* position of the pass's for loop in its range
    hidden,        \* the local variable hidden of train() and evaluate()
    data_len,      \* len(data) of the window get_batch returned
    grad,          \* the parameters' .grad: backward passes accumulated in it
                   \* since zero_grad, and whether it was clipped since
    ops,           \* the statements run so far in this iteration of the loop
    fwds,          \* the forward passes of this pass: hidden state in and out
    visited        \* the offsets i this pass has iterated so far

pvars == <<tokens, bsz, bptt, rank, world_size, phase, data_source, k,
           total_loss, wins, ret>>

mvars == <<epochs, train_rows, pc, epoch, lr, optimizer_lr, lr2, seq_len, batch,
           best_val_loss, val_loss, params, entered, ckpt, calls, incr, decr,
           best_seen, nosave>>

tvars == <<model_type, eval_rows, at, stmt, ep, pass, bptt2, win, hidden,
           data_len, grad, ops, fwds, visited>>

vars == <<pvars, mvars, tvars>>

(* ------------------------- Python / torch helpers --------------------- *)
Min(a, b) == IF a <= b THEN a ELSE b
Max(a, b) == IF a >= b THEN a ELSE b

\* Python's a // b (floor division) for b # 0.
PyFloorDiv(a, b) == IF b > 0 THEN a \div b ELSE (0 - a) \div (0 - b)

Err(what) == [err |-> what]
IsErr(x) == "err" \in DOMAIN x

\* Python's range(start, stop, step) for step >= 1, as the list it iterates.
RECURSIVE Range(_, _, _)
Range(start, stop, step) ==
    IF start < stop THEN <<start>> \o Range(start + step, stop, step) ELSE <<>>

\* A 2-d tensor in contiguous (row-major) storage.
Matrix(nrows, ncols, elems) == [nrows |-> nrows, ncols |-> ncols, elems |-> elems]
At(m, r, c) == m.elems[r * m.ncols + c + 1]

\* A 1-d tensor.
Vector(elems) == [elems |-> elems]

\* tensor.narrow(0, start, length) on a 1-d tensor.
Narrow(t, start, length) ==
    IF length < 0 \/ start + length > Len(t.elems)
    THEN Err("narrow: out of range")
    ELSE Vector(SubSeq(t.elems, start + 1, start + length))

\* tensor.view(d0, -1) on a 1-d tensor: the second size is inferred.
View(t, d0) ==
    IF d0 < 0 THEN Err("view: invalid shape dimension")
    ELSE IF d0 = 0 THEN Err("view: cannot infer the unspecified dimension")
    ELSE IF Len(t.elems) % d0 # 0 THEN Err("view: shape invalid for input size")
    ELSE Matrix(d0, Len(t.elems) \div d0, t.elems)

\* m.t().contiguous(): the transpose, laid out row-major again.
Transpose(m) ==
    Matrix(m.ncols, m.nrows,
           [j \in 1..(m.nrows * m.ncols) |->
               LET r == (j - 1) \div m.nrows
                   c == (j - 1) % m.nrows
               IN  m.elems[c * m.ncols + r + 1]])

\* source[a:b] on the rows of a matrix, for 0 <= a (Python clamps both ends).
RowSlice(m, a, b) ==
    LET lo == Min(a, m.nrows)
        hi == Min(Max(b, lo), m.nrows)
    IN  Matrix(hi - lo, m.ncols, SubSeq(m.elems, lo * m.ncols + 1, hi * m.ncols))

(* ------------------------------ batchify ------------------------------ *)
\* a slip: the trimmed data viewed as (nbatch, bsz) rows, without the transpose
batchifyRowMajor(data, b) ==
    IF b = 0 THEN Err("ZeroDivisionError")
    ELSE LET nbatch == PyFloorDiv(Len(data.elems), b)
             narrowed == Narrow(data, 0, nbatch * b)
         IN  IF IsErr(narrowed) THEN narrowed
             ELSE IF b < 0 THEN Err("view: invalid shape dimension")
             ELSE Matrix(nbatch, b, narrowed.elems)

batchify(data, b) ==
    IF b = 0 THEN Err("ZeroDivisionError")
    ELSE LET nbatch == PyFloorDiv(Len(data.elems), b)
             narrowed == Narrow(data, 0, nbatch * b)
         IN  IF IsErr(narrowed) THEN narrowed
             ELSE LET viewed == View(narrowed, b)
                  IN  IF IsErr(viewed) THEN viewed ELSE Transpose(viewed)

(* ------------------------------ get_batch ----------------------------- *)
\* a slip: the window length not cut at the end of the stream
SeqLenUncut(W, nrows, i) == W

SeqLen(W, nrows, i) == Min(W, nrows - 1 - i)

\* a slip: the target taken at the input's own rows, not one row further
get_batchUnshifted(source, i, W) ==
    LET n == SeqLen(W, source.nrows, i)
    IN  [data |-> RowSlice(source, i, i + n),
         target |-> RowSlice(source, i, i + n).elems]

get_batch(source, i, W) ==
    LET n == SeqLen(W, source.nrows, i)
    IN  [data |-> RowSlice(source, i, i + n),
         target |-> RowSlice(source, i + 1, i + 1 + n).elems]

(* --------------------- the offsets of one worker ---------------------- *)
\* a slip: every rank starts at offset 0
OffsetsFromZero(W, r, ws, nrows) == Range(0, nrows - 1, W * ws)

Offsets(W, r, ws, nrows) == Range(W * r, nrows - 1, W * ws)

(* ------------------------------ evaluate ------------------------------ *)
\* total_loss / ((len(data_source) - 1) / float(args.world_size))
EvalResult(total, nrows, ws) ==
    IF nrows - 1 = 0 THEN Err("ZeroDivisionError")
    ELSE [num |-> total * ws, den |-> nrows - 1]

TokenStreams(L) == {Vector([j \in 1..L |-> j - 1]), Vector([j \in 1..L |-> L - j])}

(* -------------------------- the hidden state -------------------------- *)
\* a tensor of a hidden state: its batch width, its values (zeros, or the
\* output of forward pass win of pass number pass, component part) and the
\* rows of forward computation its history still links it to
Tensor(width, val, hist) == [tag |-> "Tensor", width |-> width, val |-> val, hist |-> hist]
Tuple(items) == [tag |-> "Tuple", items |-> items]
IsTensor(h) == h.tag = "Tensor"

\* weight.new_zeros(nlayers, bsz, nhid)
Zeros(width) == Tensor(width, [pass |-> 0, win |-> 0, part |-> 0], 0)

\* a slip: the tensor is handed on with its history
DetachKeepsHistory(t) == t

\* h.detach(): the same values, no history
Detach(t) == [t EXCEPT !.hist = 0]

\* a slip: the state of the pass before is kept when there is one
init_hiddenStale(type, width) ==
    IF hidden.tag \in {"Tensor", "Tuple"} THEN hidden
    ELSE IF type = "LSTM" THEN Tuple(<<Zeros(width), Zeros(width)>>)
    ELSE Zeros(width)

\* init_hidden, lines 93-99
init_hidden(type, width) ==
    IF type = "LSTM" THEN Tuple(<<Zeros(width), Zeros(width)>>) ELSE Zeros(width)

\* a slip: the members of a tuple are copied as they are
repackage_hiddenShallow(h) ==
    IF IsTensor(h) THEN Detach(h) ELSE Tuple([j \in DOMAIN h.items |-> h.items[j]])

\* repackage_hidden, lines 85-90
RECURSIVE repackage_hidden(_)
repackage_hidden(h) ==
    IF IsTensor(h) THEN Detach(h)
    ELSE Tuple([j \in DOMAIN h.items |-> repackage_hidden(h.items[j])])

\* the tensors of a hidden state, in order
Leaves(h) == IF IsTensor(h) THEN <<h>> ELSE h.items

\* the history depth of a hidden state: the longest history of its tensors
Depth(h) ==
    LET d == {Leaves(h)[j].hist : j \in DOMAIN Leaves(h)}
    IN  CHOOSE x \in d : \A y \in d : y <= x

\* output, hidden = model(data, hidden), lines 129 and 154: the new state has
\* the shape of the old one; each tensor of it is computed from the n rows of
\* data and from the whole old state, and is linked to that computation when
\* gradients are recorded (train) and to nothing under torch.no_grad (evaluate)
Forward(h, p, j, n, recording) ==
    LET out(width, part) ==
            Tensor(width, [pass |-> p, win |-> j, part |-> part],
                   IF recording THEN Depth(h) + n ELSE 0)
    IN  IF IsTensor(h) THEN out(h.width, 1)
        ELSE Tuple([q \in DOMAIN h.items |-> out(h.items[q].width, q)])

\* the statement-level variables while main() is looked at as a whole
StepIdle ==
    /\ model_type = "LSTM"
    /\ eval_rows = 0
    /\ at = "idle"
    /\ stmt = 0
    /\ ep = 0
    /\ pass = [no |-> 0, kind |-> "none", width |-> 0, rows |-> 0]
    /\ bptt2 = 0
    /\ win = 0
    /\ hidden = [tag |-> "none"]
    /\ data_len = 0
    /\ grad = [passes |-> 0, clipped |-> FALSE]
    /\ ops = <<>>
    /\ fwds = <<>>
    /\ visited = <<>>

\* no worker process of the main() model
WorkersIdle ==
    /\ pc = <<>>
    /\ epoch = <<>>
    /\ lr = <<>>
    /\ optimizer_lr = <<>>
    /\ lr2 = <<>>
    /\ seq_len = <<>>
    /\ batch = <<>>
    /\ best_val_loss = <<>>
    /\ val_loss = <<>>
    /\ params = <<>>
    /\ entered = <<>>
    /\ ckpt = <<>>
    /\ calls = <<>>
    /\ incr = <<>>
    /\ decr = <<>>
    /\ best_seen = <<>>
    /\ nosave = <<>>

\* the workers' variables while only the data pipeline is looked at
MainIdle ==
    /\ epochs = 0
    /\ train_rows = 0
    /\ WorkersIdle

PassInit ==
    /\ MainIdle
    /\ StepIdle
    /\ \E L \in LenValues : tokens \in TokenStreams(L)
    /\ bsz \in BszValues
    /\ bptt \in BpttValues
    /\ world_size \in WorldValues
    /\ rank \in 0..(world_size - 1)
    /\ phase = "load"
    /\ data_source = Err("not loaded")
    /\ k = 1
    /\ total_loss = 0
    /\ wins = <<>>
    /\ ret = Err("not returned")

\* main(), lines 184-186: a stream is batchified; an exception ends the process,
\* otherwise the stream is the data_source of an evaluate() pass.
Batchify ==
    /\ phase = "load"
    /\ data_source' = batchify(tokens, bsz)
    /\ phase' = IF IsErr(data_source') THEN "failed" ELSE "eval"
    /\ UNCHANGED <<tokens, bsz, bptt, rank, world_size, k, total_loss, wins, ret>>
    /\ UNCHANGED <<mvars, tvars>>

MyOffsets == Offsets(bptt, rank, world_size, data_source.nrows)

\* one iteration of evaluate's for loop
EvalStep ==
    /\ phase = "eval"
    /\ k <= Len(MyOffsets)
    /\ \E loss \in Losses :
         LET i == MyOffsets[k]
             b == get_batch(data_source, i, bptt)
         IN  /\ total_loss' = total_loss + b.data.nrows * loss
             /\ wins' = Append(wins, [i |-> i, data |-> b.data,
                                      target |-> b.target, loss |-> loss])
    /\ k' = k + 1
    /\ UNCHANGED <<tokens, bsz, bptt, rank, world_size, phase, data_source, ret>>
    /\ UNCHANGED <<mvars, tvars>>

\* the loop is exhausted: evaluate returns
EvalReturn ==
    /\ phase = "eval"
    /\ k > Len(MyOffsets)
    /\ ret' = EvalResult(total_loss, data_source.nrows, world_size)
    /\ phase' = IF IsErr(ret') THEN "failed" ELSE "returned"
    /\ UNCHANGED <<tokens, bsz, bptt, rank, world_size, data_source, k,
                   total_loss, wins>>
    /\ UNCHANGED <<mvars, tvars>>

(* ---------------- claims about the data pipeline (SpecPass) ------------ *)
Loaded == ~IsErr(data_source)
\* The state right after batchify returned. The stream and the arguments never
\* change afterwards, so what a claim says about the stream as a whole is
\* evaluated here, and what it says about the windows sliced in every state.
JustLoaded == phase = "eval" /\ k = 1
Rows == data_source.nrows
Ranks == 0..(world_size - 1)
SeqToSet(q) == {q[j] : j \in 1..Len(q)}

RECURSIVE SumLens(_)
SumLens(w) == IF w = <<>> THEN 0 ELSE Head(w).data.nrows + SumLens(Tail(w))

RECURSIVE SumLoss(_)
SumLoss(w) ==
    IF w = <<>> THEN 0 ELSE Head(w).data.nrows * Head(w).loss + SumLoss(Tail(w))

RECURSIVE SumOver(_, _)
SumOver(f, S) ==
    IF S = {} THEN 0
    ELSE LET x == CHOOSE y \in S : TRUE IN f[x] + SumOver(f, S \ {x})

\* the offsets rank r iterates over the loaded stream
OffsetsOf(r) == Offsets(bptt, r, world_size, Rows)
\* the single-worker sequence 0, W, 2W, ... below rows-1
SingleWorker == Offsets(bptt, 0, 1, Rows)
\* the rows of the window get_batch slices at offset i
WindowRows(i) == i..(i + get_batch(data_source, i, bptt).data.nrows - 1)
\* the windows this process has sliced so far, as (offset, length) pairs
Sliced == {<<wins[j].i, wins[j].data.nrows>> : j \in 1..Len(wins)}

\* C1: for every world_size >= 1, window size W >= 1 and row count, the offset
\* sequences of ranks 0..world_size-1 are pairwise disjoint (and free of
\* repetitions), and their union is exactly the single-worker sequence
\* 0, W, 2W, ... of the multiples of W below rows-1; the offsets this process
\* iterates are the sequence of its rank.
C1_OffsetsPartition ==
    /\ JustLoaded =>
         /\ \A r1, r2 \in Ranks :
              r1 # r2 => SeqToSet(OffsetsOf(r1)) \cap SeqToSet(OffsetsOf(r2)) = {}
         /\ \A r \in Ranks : Cardinality(SeqToSet(OffsetsOf(r))) = Len(OffsetsOf(r))
         /\ UNION {SeqToSet(OffsetsOf(r)) : r \in Ranks}
              = {x \in 0..(Rows - 2) : x % bptt = 0}
         /\ SumOver([r \in Ranks |-> Len(OffsetsOf(r))], Ranks) = Len(SingleWorker)
         /\ \A j \in 1..Len(SingleWorker) : SingleWorker[j] = (j - 1) * bptt
    /\ (Loaded /\ wins # <<>>) => wins[Len(wins)].i = OffsetsOf(rank)[Len(wins)]
    /\ phase = "returned" => Len(wins) = Len(OffsetsOf(rank))

C1_Witness ==
    /\ phase = "returned"
    /\ world_size = 2
    /\ rank = 1
    /\ bptt = 2
    /\ Len(wins) >= 2
    /\ Len(OffsetsOf(0)) >= 2

\* C2: in one pass over a stream with `rows` rows, the windows sliced by all
\* ranks together cover every row index in [0, rows-1) exactly once and no row
\* outside it; the windows this process sliced are those of its rank.
C2_WindowsCoverOnce ==
    /\ JustLoaded =>
         /\ \A x \in 0..(Rows - 2) :
              Cardinality({<<r, j>> \in Ranks \X (1..Rows) :
                              /\ j <= Len(OffsetsOf(r))
                              /\ x \in WindowRows(OffsetsOf(r)[j])}) = 1
         /\ \A r \in Ranks : \A j \in 1..Len(OffsetsOf(r)) :
              WindowRows(OffsetsOf(r)[j]) \subseteq 0..(Rows - 2)
    /\ (Loaded /\ wins # <<>>) =>
         LET w == wins[Len(wins)]
         IN  /\ w.data.nrows = Cardinality(WindowRows(w.i))
             /\ w.data.nrows = Min(bptt, Rows - 1 - w.i)
    /\ phase = "returned" =>
         Sliced = {<<OffsetsOf(rank)[j], Cardinality(WindowRows(OffsetsOf(rank)[j]))>> :
                      j \in 1..Len(OffsetsOf(rank))}

C2_Witness ==
    /\ phase = "returned"
    /\ world_size = 2
    /\ bptt = 2
    /\ Rows = 8
    /\ Len(wins) = 2
    /\ wins[2].data.nrows = 1

\* C7: for every token sequence of length L and batch width B with
\* 1 <= B <= L, batchify returns a matrix with floor(L/B) rows and B columns
\* whose column c is the run of tokens [c*rows, (c+1)*rows): concatenating the
\* columns reproduces the first B*floor(L/B) tokens, the last L mod B are dropped.
C7_BatchifyColumns ==
    /\ (phase # "load" /\ 1 <= bsz /\ bsz <= Len(tokens.elems)) => Loaded
    /\ (JustLoaded /\ 1 <= bsz /\ bsz <= Len(tokens.elems)) =>
      /\ Rows = Len(tokens.elems) \div bsz
      /\ data_source.ncols = bsz
      /\ Len(data_source.elems) = Rows * bsz
      /\ \A r \in 0..(Rows - 1) : \A c \in 0..(bsz - 1) :
           At(data_source, r, c) = tokens.elems[c * Rows + r + 1]
      /\ [j \in 1..(Rows * bsz) |->
            At(data_source, (j - 1) % Rows, (j - 1) \div Rows)]
           = SubSeq(tokens.elems, 1, bsz * (Len(tokens.elems) \div bsz))
      /\ Len(tokens.elems) - Rows * bsz = Len(tokens.elems) % bsz

C7_Witness ==
    /\ phase = "eval"
    /\ Len(tokens.elems) = 8
    /\ bsz = 3
    /\ Rows = 2
    /\ At(data_source, 1, 2) = tokens.elems[6]

\* C8: for every batched stream with `rows` rows and B columns and every offset
\* i with 0 <= i < rows-1, get_batch returns seq_len = min(W, rows-1-i) >= 1
\* input rows S[i .. i+seq_len) and a flat target of seq_len*B elements with
\* target[t*B + c] = S[i+1+t][c]: the input shifted by one row.
C8_TargetShifted ==
    /\ JustLoaded =>
         \A i \in 0..(Rows - 2) :
           LET b == get_batch(data_source, i, bptt)
               n == Min(bptt, Rows - 1 - i)
               B == data_source.ncols
           IN  /\ n >= 1
               /\ b.data.nrows = n
               /\ b.data.ncols = B
               /\ Len(b.data.elems) = n * B
               /\ Len(b.target) = n * B
               /\ \A t \in 0..(n - 1) : \A c \in 0..(B - 1) :
                    /\ At(b.data, t, c) = At(data_source, i + t, c)
                    /\ b.target[t * B + c + 1] = At(data_source, i + 1 + t, c)
    /\ (Loaded /\ wins # <<>>) =>
         LET w == wins[Len(wins)]
             B == data_source.ncols
         IN  /\ 0 <= w.i /\ w.i < Rows - 1
             /\ w.data.nrows >= 1
             /\ Len(w.target) = w.data.nrows * B
             /\ \A t \in 0..(w.data.nrows - 1) : \A c \in 0..(B - 1) :
                  /\ At(w.data, t, c) = At(data_source, w.i + t, c)
                  /\ w.target[t * B + c + 1] = At(data_source, w.i + 1 + t, c)

C8_Witness ==
    /\ phase = "returned"
    /\ bptt = 2
    /\ Rows = 4
    /\ data_source.ncols = 2
    /\ Len(wins) = 2
    /\ wins[1].target = <<1, 5, 2, 6>>
    /\ wins[2].data.nrows = 1

\* C9 (the claim as stated): batchify fails with an error, and returns no
\* batched stream, whenever the batch width is <= 0 or the token sequence is
\* shorter than the batch width.
C9_BatchifyRejects ==
    (phase # "load" /\ (bsz <= 0 \/ Len(tokens.elems) < bsz)) => IsErr(data_source)

\* C10 (the claim as stated, for a stream of at least two rows and a rank that
\* processed at least one window): evaluate() returns the sum over the rank's
\* windows of window_length * mean loss divided by (rows-1)/world_size, this
\* divisor is the number of target rows the rank processed
\* (world_size * sum of its window lengths = rows-1), and so a pass whose
\* windows all have mean loss c returns c.
C10_EvalIsMean ==
    (phase = "returned" /\ Rows >= 2 /\ wins # <<>>) =>
      /\ ret.num = world_size * SumLoss(wins)
      /\ ret.den = Rows - 1
      /\ world_size * SumLens(wins) = Rows - 1
      /\ \A c \in Losses :
           (wins # <<>> /\ \A j \in 1..Len(wins) : wins[j].loss = c)
             => ret.num = c * ret.den

PassNext == Batchify \/ EvalStep \/ EvalReturn

SpecPass == PassInit /\ [][PassNext]_vars

(* ======================= main(): the epoch loop ======================== *)
MaxEpochs == 3
MaxTrainRows == 4
\* train(): seq_len = max(5, ...)
MinSeqLen == 5

Workers == 0..(world_size - 1)
\* the values train() may draw for seq_len: max(5, int(normal(bptt, 5)))
SeqLens == MinSeqLen..(MinSeqLen + 1)

RECURSIVE Pow4(_)
Pow4(n) == IF n = 0 THEN 1 ELSE 4 * Pow4(n - 1)

\* args.lr, counted in units small enough that every learning rate of a run
\* is a whole number: lr / 4 at most MaxEpochs times, and lr * seq_len / bptt.
LrInit == bptt * Pow4(MaxEpochs)

\* Python's truth value of best_val_loss: None and 0.0 are false.
Falsy(b) == b = <<>> \/ b[1] = 0

\* main(), line 225: "not best_val_loss or val_loss < best_val_loss"
Improved(v, b) == Falsy(b) \/ v < b[1]

\* the averaged (and clipped) gradient all workers read after the n-th
\* all-reduce: one value for the whole group, different from step to step
AvgGrad(n) == n

\* the offsets worker w iterates in train()
TrainOffsets(w) == Offsets(bptt, w, world_size, train_rows)

MainInit(world, windows) ==
    /\ StepIdle
    /\ tokens = Vector(<<>>)
    /\ bsz = 1
    /\ rank = 0
    /\ phase = "idle"
    /\ data_source = Err("not loaded")
    /\ k = 1
    /\ total_loss = 0
    /\ wins = <<>>
    /\ ret = Err("not returned")
    /\ bptt \in windows
    /\ world_size \in world
    /\ epochs \in 0..MaxEpochs
    /\ train_rows \in 0..MaxTrainRows
    /\ pc = [w \in Workers |-> "loop"]
    /\ epoch = [w \in Workers |-> 0]
    /\ lr = [w \in Workers |-> LrInit]
    /\ optimizer_lr = [w \in Workers |-> LrInit]
    /\ lr2 = [w \in Workers |-> 0]
    /\ seq_len = [w \in Workers |-> 0]
    /\ batch = [w \in Workers |-> 0]
    /\ best_val_loss = [w \in Workers |-> <<>>]
    /\ val_loss = [w \in Workers |-> 0]
    /\ params = [w \in Workers |-> 0]
    /\ entered = [w \in Workers |-> 0]
    /\ ckpt = [w \in Workers |-> <<>>]
    /\ calls = [w \in Workers |-> <<>>]
    /\ incr = [w \in Workers |-> TRUE]
    /\ decr = [w \in Workers |-> TRUE]
    /\ best_seen = [w \in Workers |-> <<>>]
    /\ nosave = [w \in Workers |-> 0]

\* a slip: one epoch too many, range(1, args.epochs+2)
EpochNextOneMore(w) ==
    /\ pc[w] = "loop"
    /\ IF epoch[w] <= epochs
       THEN /\ epoch' = [epoch EXCEPT ![w] = @ + 1]
            /\ pc' = [pc EXCEPT ![w] = "train"]
       ELSE /\ pc' = [pc EXCEPT ![w] = "test"]
            /\ UNCHANGED epoch
    /\ UNCHANGED <<epochs, train_rows, lr, optimizer_lr, lr2, seq_len, batch,
                   best_val_loss, val_loss, params, entered, ckpt, calls, incr, decr>>
    /\ UNCHANGED <<best_seen, nosave>>
    /\ UNCHANGED <<pvars, tvars>>

\* for epoch in range(1, args.epochs+1): the next epoch, or the loop's end
EpochNext(w) ==
    /\ pc[w] = "loop"
    /\ IF epoch[w] < epochs
       THEN /\ epoch' = [epoch EXCEPT ![w] = @ + 1]
            /\ pc' = [pc EXCEPT ![w] = "train"]
       ELSE /\ pc' = [pc EXCEPT ![w] = "test"]
            /\ UNCHANGED epoch
    /\ UNCHANGED <<epochs, train_rows, lr, optimizer_lr, lr2, seq_len, batch,
                   best_val_loss, val_loss, params, entered, ckpt, calls, incr, decr>>
    /\ UNCHANGED <<best_seen, nosave>>
    /\ UNCHANGED <<pvars, tvars>>

\* train(), lines 136-147: draw seq_len, scale the optimizer's learning rate
TrainEnter(w) ==
    /\ pc[w] = "train"
    /\ \E n \in SeqLens : seq_len' = [seq_len EXCEPT ![w] = n]
    /\ lr2' = [lr2 EXCEPT ![w] = optimizer_lr[w]]
    /\ optimizer_lr' = [optimizer_lr EXCEPT ![w] = (lr2'[w] * seq_len'[w]) \div bptt]
    /\ batch' = [batch EXCEPT ![w] = 1]
    /\ calls' = [calls EXCEPT ![w] = Append(@, "train")]
    /\ pc' = [pc EXCEPT ![w] = "batch"]
    /\ UNCHANGED <<epochs, train_rows, epoch, lr, best_val_loss, val_loss, params,
                   entered, ckpt, incr, decr>>
    /\ UNCHANGED <<best_seen, nosave>>
    /\ UNCHANGED <<pvars, tvars>>

\* train(), lines 148-156: one iteration up to loss.backward(), which begins the
\* group's gradient all-reduce when the model is wrapped (world_size > 1)
TrainStep(w) ==
    /\ pc[w] = "batch"
    /\ batch[w] <= Len(TrainOffsets(w))
    /\ entered' = [entered EXCEPT ![w] = @ + 1]
    /\ pc' = [pc EXCEPT ![w] = "backward"]
    /\ UNCHANGED <<epochs, train_rows, epoch, lr, optimizer_lr, lr2, seq_len, batch,
                   best_val_loss, val_loss, params, ckpt, calls, incr, decr>>
    /\ UNCHANGED <<best_seen, nosave>>
    /\ UNCHANGED <<pvars, tvars>>

\* train(), lines 156-160: the all-reduce completes once every worker has begun
\* it; then clip_grad_norm_ and optimizer.step()
TrainSync(w) ==
    /\ pc[w] = "backward"
    /\ \A v \in Workers : entered[v] >= entered[w]
    /\ params' = [params EXCEPT ![w] = @ - optimizer_lr[w] * AvgGrad(entered[w])]
    /\ batch' = [batch EXCEPT ![w] = @ + 1]
    /\ pc' = [pc EXCEPT ![w] = "batch"]
    /\ UNCHANGED <<epochs, train_rows, epoch, lr, optimizer_lr, lr2, seq_len,
                   best_val_loss, val_loss, entered, ckpt, calls, incr, decr>>
    /\ UNCHANGED <<best_seen, nosave>>
    /\ UNCHANGED <<pvars, tvars>>

\* a slip: train() returns without putting the learning rate back
TrainExitNoRestore(w) ==
    /\ pc[w] = "batch"
    /\ batch[w] > Len(TrainOffsets(w))
    /\ pc' = [pc EXCEPT ![w] = "validate"]
    /\ UNCHANGED <<epochs, train_rows, epoch, lr, optimizer_lr, lr2, seq_len, batch,
                   best_val_loss, val_loss, params, entered, ckpt, calls, incr, decr>>
    /\ UNCHANGED <<best_seen, nosave>>
    /\ UNCHANGED <<pvars, tvars>>

\* train(), line 174: the loop is exhausted, the learning rate is put back
TrainExit(w) ==
    /\ pc[w] = "batch"
    /\ batch[w] > Len(TrainOffsets(w))
    /\ optimizer_lr' = [optimizer_lr EXCEPT ![w] = lr2[w]]
    /\ pc' = [pc EXCEPT ![w] = "validate"]
    /\ UNCHANGED <<epochs, train_rows, epoch, lr, lr2, seq_len, batch,
                   best_val_loss, val_loss, params, entered, ckpt, calls, incr, decr>>
    /\ UNCHANGED <<best_seen, nosave>>
    /\ UNCHANGED <<pvars, tvars>>

\* main(), line 218: val_loss = evaluate(val_data, ...), a loss of this
\* worker's own share of the validation data
Validate(w) ==
    /\ pc[w] = "validate"
    /\ \E v \in Losses : val_loss' = [val_loss EXCEPT ![w] = v]
    /\ calls' = [calls EXCEPT ![w] = Append(@, "evaluate_val")]
    /\ pc' = [pc EXCEPT ![w] = "decide"]
    /\ incr' = [incr EXCEPT ![w] = @ /\ (epoch[w] = 1 \/ val_loss'[w] > val_loss[w])]
    /\ decr' = [decr EXCEPT ![w] = @ /\ (epoch[w] = 1 \/ val_loss'[w] < val_loss[w])]
    /\ UNCHANGED <<epochs, train_rows, epoch, lr, optimizer_lr, lr2, seq_len, batch,
                   best_val_loss, params, entered, ckpt>>
    /\ UNCHANGED <<best_seen, nosave>>
    /\ UNCHANGED <<pvars, tvars>>

\* the lowest validation loss seen so far with the first epoch that had it,
\* after the loss v of epoch e
LowestSeen(seen, v, e) ==
    IF seen = <<>> \/ v < seen[1].loss THEN <<[loss |-> v, epoch |-> e]>> ELSE seen

\* a slip: the annealed rate is kept in main's lr and not handed to the optimizer
DecideLocalOnly(w) ==
    /\ pc[w] = "decide"
    /\ IF Improved(val_loss[w], best_val_loss[w])
       THEN /\ ckpt' = [ckpt EXCEPT ![w] = <<[epoch |-> epoch[w], params |-> params[w]]>>]
            /\ best_val_loss' = [best_val_loss EXCEPT ![w] = <<val_loss[w]>>]
            /\ UNCHANGED <<lr, optimizer_lr>>
       ELSE /\ lr' = [lr EXCEPT ![w] = @ \div 4]
            /\ UNCHANGED <<optimizer_lr, ckpt, best_val_loss>>
    /\ pc' = [pc EXCEPT ![w] = "loop"]
    /\ best_seen' = [best_seen EXCEPT ![w] = LowestSeen(@, val_loss[w], epoch[w])]
    /\ nosave' = [nosave EXCEPT ![w] = IF ckpt'[w] = ckpt[w] THEN @ + 1 ELSE @]
    /\ UNCHANGED <<epochs, train_rows, epoch, lr2, seq_len, batch, val_loss, params,
                   entered, calls, incr, decr>>
    /\ UNCHANGED <<pvars, tvars>>

\* main(), lines 225-232: save the model, or anneal the learning rate
Decide(w) ==
    /\ pc[w] = "decide"
    /\ IF Improved(val_loss[w], best_val_loss[w])
       THEN /\ ckpt' = [ckpt EXCEPT ![w] = <<[epoch |-> epoch[w], params |-> params[w]]>>]
            /\ best_val_loss' = [best_val_loss EXCEPT ![w] = <<val_loss[w]>>]
            /\ UNCHANGED <<lr, optimizer_lr>>
       ELSE /\ lr' = [lr EXCEPT ![w] = @ \div 4]
            /\ optimizer_lr' = [optimizer_lr EXCEPT ![w] = lr'[w]]
            /\ UNCHANGED <<ckpt, best_val_loss>>
    /\ pc' = [pc EXCEPT ![w] = "loop"]
    /\ best_seen' = [best_seen EXCEPT ![w] = LowestSeen(@, val_loss[w], epoch[w])]
    /\ nosave' = [nosave EXCEPT ![w] = IF ckpt'[w] = ckpt[w] THEN @ + 1 ELSE @]
    /\ UNCHANGED <<epochs, train_rows, epoch, lr2, seq_len, batch, val_loss, params,
                   entered, calls, incr, decr>>
    /\ UNCHANGED <<pvars, tvars>>

\* main(), line 235: test_loss = evaluate(test_data, ...), then main returns
Test(w) ==
    /\ pc[w] = "test"
    /\ calls' = [calls EXCEPT ![w] = Append(@, "evaluate_test")]
    /\ pc' = [pc EXCEPT ![w] = "done"]
    /\ UNCHANGED <<epochs, train_rows, epoch, lr, optimizer_lr, lr2, seq_len, batch,
                   best_val_loss, val_loss, params, entered, ckpt, incr, decr>>
    /\ UNCHANGED <<best_seen, nosave>>
    /\ UNCHANGED <<pvars, tvars>>

MainNext ==
    \/ \E w \in Workers : EpochNext(w)
    \/ \E w \in Workers : TrainEnter(w)
    \/ \E w \in Workers : TrainStep(w)
    \/ \E w \in Workers : TrainSync(w)
    \/ \E w \in Workers : TrainExit(w)
    \/ \E w \in Workers : Validate(w)
    \/ \E w \in Workers : Decide(w)
    \/ \E w \in Workers : Test(w)

(* --------------------- claims about the epoch loop --------------------- *)
\* C3 (the claim as stated): while the validation losses seen so far strictly
\* decrease, every epoch writes a checkpoint and the learning rate stays the
\* initial one; while they strictly increase, only epoch 1 writes a checkpoint
\* and every later epoch divides the learning rate by 4. For every such
\* sequence of losses, one starting at 0 included.
C3_MonotoneLosses ==
    \A w \in Workers :
      (pc[w] = "loop" /\ epoch[w] >= 1) =>
        /\ decr[w] => /\ ckpt[w] # <<>>
                      /\ ckpt[w][1].epoch = epoch[w]
                      /\ lr[w] = LrInit
                      /\ optimizer_lr[w] = LrInit
        /\ incr[w] => /\ ckpt[w] # <<>>
                      /\ ckpt[w][1].epoch = 1
                      /\ lr[w] * Pow4(epoch[w] - 1) = LrInit
                      /\ optimizer_lr[w] = lr[w]

\* C4 (the claim as stated): after validation the model is saved and
\* best-so-far set to this epoch's loss if and only if this is the first
\* epoch or the loss is strictly less than best-so-far; otherwise nothing is
\* saved, best-so-far is unchanged and the learning rate is divided by 4; the
\* learning rate never rises again.
C4_SaveIffImproved ==
    [][\A w \in Workers :
         /\ lr'[w] <= lr[w]
         /\ (pc[w] = "decide" /\ pc'[w] = "loop") =>
              IF \/ epoch[w] = 1
                 \/ (best_val_loss[w] # <<>> /\ val_loss[w] < best_val_loss[w][1])
              THEN /\ ckpt'[w] = <<[epoch |-> epoch[w], params |-> params[w]]>>
                   /\ best_val_loss'[w] = <<val_loss[w]>>
                   /\ lr'[w] = lr[w]
                   /\ optimizer_lr'[w] = optimizer_lr[w]
              ELSE /\ ckpt'[w] = ckpt[w]
                   /\ best_val_loss'[w] = best_val_loss[w]
                   /\ lr'[w] * 4 = lr[w]
                   /\ optimizer_lr'[w] = lr'[w]]_vars

\* the passes main() runs with E epochs, in order
RECURSIVE ExpectedCalls(_)
ExpectedCalls(E) ==
    IF E <= 0 THEN <<"evaluate_test">>
    ELSE <<"train", "evaluate_val">> \o ExpectedCalls(E - 1)

IsPrefix(a, b) == Len(a) <= Len(b) /\ a = SubSeq(b, 1, Len(a))

\* the number of steps worker w still has to take before main() returns
StepsLeft(w) ==
    LET S == Len(TrainOffsets(w))
        perEpoch == 2 * S + 5
        later == (epochs - epoch[w]) * perEpoch + 2
    IN  CASE pc[w] = "loop" -> later
          [] pc[w] = "train" -> later + perEpoch - 1
          [] pc[w] = "batch" -> later + 2 * (S - batch[w] + 1) + 3
          [] pc[w] = "backward" -> later + 2 * (S - batch[w] + 1) + 2
          [] pc[w] = "validate" -> later + 2
          [] pc[w] = "decide" -> later + 1
          [] pc[w] = "test" -> 1
          [] OTHER -> 0

\* C5: with a single worker and E >= 0 configured epochs, main() terminates
\* after exactly E epochs, each one train() pass followed by one evaluate()
\* pass on the validation data, and then runs evaluate() on the test data
\* exactly once, after the last epoch and never before. (Termination: the
\* process can always take a step until main() returns, and every step lowers
\* the number of steps left.)
C5_EpochsThenTest ==
    /\ [](\A w \in Workers :
            /\ IsPrefix(calls[w], ExpectedCalls(epochs))
            /\ epoch[w] <= epochs
            /\ pc[w] = "done" => (calls[w] = ExpectedCalls(epochs) /\ epoch[w] = epochs)
            /\ pc[w] # "done" => ENABLED MainNext
            /\ StepsLeft(w) >= 0)
    /\ [][\A w \in Workers : StepsLeft(w)' < StepsLeft(w)]_vars

C5_Witness ==
    /\ world_size = 1
    /\ epochs = 2
    /\ pc[0] = "done"
    /\ calls[0] = <<"train", "evaluate_val", "train", "evaluate_val", "evaluate_test">>
    /\ entered[0] >= 2

\* C6 (the claim as stated): workers that start from identical parameters and
\* apply the same averaged gradient in every optimizer step hold the same
\* parameters after every training step of every epoch.
C6_ReplicasAgree ==
    \A w, v \in Workers :
      (entered[w] = entered[v] /\ pc[w] # "backward" /\ pc[v] # "backward")
        => params[w] = params[v]

\* C6, what the claim needs on the way: the workers enter every epoch with the
\* same learning rate. (Violated as well: each worker anneals on its own loss.)
C6_SameRateAtEpochStart ==
    \A w, v \in Workers :
      (pc[w] = "train" /\ pc[v] = "train" /\ epoch[w] = epoch[v])
        => optimizer_lr[w] = optimizer_lr[v]

\* C11: the learning-rate scaling of train() is temporary. With lr_base the
\* optimizer's learning rate when train() is entered (the controller's lr) and
\* seq_len >= 5 the length drawn at entry, every optimizer step of that call
\* uses lr_base * seq_len / W, and the optimizer's learning rate is lr_base
\* again when train() has returned, for any number of steps, zero included.
C11_ScalingIsTemporary ==
    /\ [](\A w \in Workers :
            /\ pc[w] = "train" => optimizer_lr[w] = lr[w]
            /\ pc[w] \in {"batch", "backward"} =>
                 /\ seq_len[w] >= 5
                 /\ optimizer_lr[w] * bptt = lr[w] * seq_len[w]
            /\ pc[w] \in {"validate", "decide"} => optimizer_lr[w] = lr[w])
    /\ [][\A w \in Workers :
            (pc[w] = "backward" /\ pc'[w] = "batch") =>
               (params[w] - params'[w]) * bptt
                  = lr[w] * seq_len[w] * AvgGrad(entered[w])]_vars

C11_Witness ==
    /\ pc[0] = "validate"
    /\ epoch[0] = 3
    /\ seq_len[0] = 6
    /\ Len(TrainOffsets(0)) >= 2
    /\ lr[0] # LrInit
    /\ optimizer_lr[0] = lr[0]

C11_WitnessNoSteps ==
    /\ pc[0] = "validate"
    /\ Len(TrainOffsets(0)) = 0
    /\ optimizer_lr[0] = lr[0]

\* C18 (the claim as stated): after every epoch best_val_loss is the minimum
\* of all validation losses seen so far and the checkpoint is the model of the
\* earliest epoch that had that minimum; a later loss that is not strictly
\* lower never overwrites it. For every sequence of losses >= 0, 0 included.
C18_BestIsMinimum ==
    \A w \in Workers :
        (pc[w] = "loop" /\ epoch[w] >= 1) =>
            /\ best_val_loss[w] = <<best_seen[w][1].loss>>
            /\ ckpt[w] # <<>>
            /\ ckpt[w][1].epoch = best_seen[w][1].epoch

\* C19: at the start of every epoch the optimizer's learning rate is the
\* controller's lr, and that is the initial rate divided by 4^k, k the number
\* of earlier epochs that wrote no checkpoint; the scaling of train() never
\* leaks into it, and lr never increases from one epoch start to the next.
C19_RateAtEpochStart ==
    /\ [](\A w \in Workers :
            pc[w] = "train" =>
               /\ optimizer_lr[w] = lr[w]
               /\ nosave[w] <= epoch[w] - 1
               /\ lr[w] * Pow4(nosave[w]) = LrInit)
    /\ [][\A w \in Workers : lr'[w] <= lr[w]]_vars

C19_Witness ==
    /\ pc[0] = "train"
    /\ epoch[0] = 3
    /\ nosave[0] = 1
    /\ lr[0] * 4 = LrInit
    /\ Len(TrainOffsets(0)) >= 1


\* C17 (the claim as stated): the gradient all-reduce of a training step never
\* deadlocks a healthy group. For every world_size >= 2, W and rows all ranks
\* iterate the same number of training steps in an epoch, so an all-reduce
\* entered by one worker is entered by all and every train() returns: as long
\* as some worker has not finished main(), some worker can take a step.
C17_NoDeadlock ==
    \/ \A w \in Workers : pc[w] = "done"
    \/ ENABLED MainNext

\* a single worker: world_size = 1, the model is not wrapped
Init == MainInit({1}, BpttValues)
Next == MainNext
Spec == Init /\ [][Next]_vars

\* a group of at least two workers
DistInit == MainInit(WorldValues \ {1}, {MaxBptt})
SpecDist == DistInit /\ [][MainNext]_vars

(* ---------- main() statement by statement: the hidden state ---------- *)
MaxEvalRows == 3

\* main(), line 183: eval_batch_size = 10
EvalBatchSize == 10

\* a slip: the optimizer steps before the gradient is clipped
TrainBodyStepFirst ==
    <<"get_batch", "repackage_hidden", "zero_grad", "forward", "criterion",
      "backward", "step", "clip_grad_norm_">>

\* the loop bodies in source order: train(), lines 149-160
TrainBody ==
    <<"get_batch", "repackage_hidden", "zero_grad", "forward", "criterion",
      "backward", "clip_grad_norm_", "step">>

\* evaluate(), lines 127-131
EvalBody == <<"get_batch", "forward", "criterion", "repackage_hidden">>

Body == IF pass.kind = "train" THEN TrainBody ELSE EvalBody

\* lines 126 and 148: both loops run over
\* range(args.bptt * args.rank, rows - 1, args.bptt * args.world_size)
PassOffsets == Offsets(bptt, rank, world_size, pass.rows)

\* one process of a group of world_size, the inputs of main()
StepInit ==
    /\ WorkersIdle
    /\ epochs \in 0..MaxEpochs
    /\ train_rows \in 0..MaxTrainRows
    /\ tokens = Vector(<<>>)
    /\ phase = "idle"
    /\ data_source = Err("not loaded")
    /\ k = 1
    /\ total_loss = 0
    /\ wins = <<>>
    /\ ret = Err("not returned")
    /\ bsz \in {1, MaxBsz}
    /\ bptt \in BpttValues
    /\ world_size \in WorldValues
    /\ rank \in 0..(world_size - 1)
    /\ model_type \in {"LSTM", "GRU"}
    /\ eval_rows \in 0..MaxEvalRows
    /\ at = "loop"
    /\ stmt = 0
    /\ ep = 0
    /\ pass = [no |-> 0, kind |-> "none", width |-> 0, rows |-> 0]
    /\ bptt2 = 0
    /\ win = 0
    /\ hidden = [tag |-> "none"]
    /\ data_len = 0
    /\ grad = [passes |-> 0, clipped |-> FALSE]
    /\ ops = <<>>
    /\ fwds = <<>>
    /\ visited = <<>>

\* main(), lines 215-217 and 235: the next epoch calls train(), and after the
\* last one evaluate(test_data) is called
MainLoop ==
    /\ at = "loop"
    /\ IF ep < epochs
       THEN /\ ep' = ep + 1
            /\ at' = "train"
            /\ pass' = [no |-> pass.no + 1, kind |-> "train", width |-> bsz,
                        rows |-> train_rows]
       ELSE /\ at' = "evaluate"
            /\ pass' = [no |-> pass.no + 1, kind |-> "test", width |-> EvalBatchSize,
                        rows |-> eval_rows]
            /\ UNCHANGED ep
    /\ UNCHANGED <<model_type, eval_rows, stmt, bptt2, win, hidden, data_len, grad,
                   ops, fwds, visited>>
    /\ UNCHANGED <<pvars, mvars>>

\* train(), lines 136-147: the local bptt is drawn, the model is put in training
\* mode and the hidden state is initialised (the learning rate of lines 138-140
\* is followed in TrainEnter)
TrainBegin ==
    /\ at = "train"
    /\ \E half \in BOOLEAN : bptt2' = IF half THEN bptt ELSE 2 * bptt
    /\ hidden' = init_hidden(model_type, pass.width)
    /\ win' = 1
    /\ at' = "for"
    /\ ops' = <<>>
    /\ fwds' = <<>>
    /\ visited' = <<>>
    /\ UNCHANGED <<model_type, eval_rows, stmt, ep, pass, data_len, grad>>
    /\ UNCHANGED <<pvars, mvars>>

\* evaluate(), lines 121-124
EvalBegin ==
    /\ at = "evaluate"
    /\ hidden' = init_hidden(model_type, pass.width)
    /\ win' = 1
    /\ at' = "for"
    /\ ops' = <<>>
    /\ fwds' = <<>>
    /\ visited' = <<>>
    /\ UNCHANGED <<model_type, eval_rows, stmt, ep, pass, bptt2, data_len, grad>>
    /\ UNCHANGED <<pvars, mvars>>

\* lines 126 and 148: the for loop takes its next offset, or is exhausted
ForNext ==
    /\ at = "for"
    /\ IF win <= Len(PassOffsets)
       THEN /\ at' = "body"
            /\ stmt' = 1
            /\ ops' = <<>>
            /\ visited' = Append(visited, PassOffsets[win])
       ELSE /\ at' = "return"
            /\ UNCHANGED <<stmt, ops, visited>>
    /\ UNCHANGED <<model_type, eval_rows, ep, pass, bptt2, win, hidden, data_len,
                   grad, fwds>>
    /\ UNCHANGED <<pvars, mvars>>

\* the statement called name runs next in the loop body
Runs(name) == at = "body" /\ Body[stmt] = name

\* the statement has run: on to the next one, or back to the loop head
Advance ==
    /\ ops' = Append(ops, Body[stmt])
    /\ IF stmt = Len(Body)
       THEN /\ at' = "for"
            /\ win' = win + 1
            /\ stmt' = 0
       ELSE /\ stmt' = stmt + 1
            /\ UNCHANGED <<at, win>>

\* lines 127 and 149: data, targets = get_batch(source, i)
StmtGetBatch ==
    /\ Runs("get_batch")
    /\ data_len' = SeqLen(bptt, pass.rows, PassOffsets[win])
    /\ Advance
    /\ UNCHANGED <<model_type, eval_rows, ep, pass, bptt2, hidden, grad, fwds, visited>>
    /\ UNCHANGED <<pvars, mvars>>

\* lines 131 and 152: hidden = repackage_hidden(hidden)
StmtRepackage ==
    /\ Runs("repackage_hidden")
    /\ hidden' = repackage_hidden(hidden)
    /\ Advance
    /\ UNCHANGED <<model_type, eval_rows, ep, pass, bptt2, data_len, grad, fwds, visited>>
    /\ UNCHANGED <<pvars, mvars>>

\* line 153: optimizer.zero_grad()
StmtZeroGrad ==
    /\ Runs("zero_grad")
    /\ grad' = [passes |-> 0, clipped |-> FALSE]
    /\ Advance
    /\ UNCHANGED <<model_type, eval_rows, ep, pass, bptt2, hidden, data_len, fwds, visited>>
    /\ UNCHANGED <<pvars, mvars>>

\* lines 129 and 154: output, hidden = model(data, hidden); evaluate() runs it
\* under torch.no_grad()
StmtForward ==
    /\ Runs("forward")
    /\ hidden' = Forward(hidden, pass.no, win, data_len, pass.kind = "train")
    /\ fwds' = Append(fwds, [in |-> hidden, out |-> hidden'])
    /\ Advance
    /\ UNCHANGED <<model_type, eval_rows, ep, pass, bptt2, data_len, grad, visited>>
    /\ UNCHANGED <<pvars, mvars>>

\* lines 130 and 155: criterion(output, targets); its value is followed in
\* EvalStep
StmtCriterion ==
    /\ Runs("criterion")
    /\ Advance
    /\ UNCHANGED <<model_type, eval_rows, ep, pass, bptt2, hidden, data_len, grad,
                   fwds, visited>>
    /\ UNCHANGED <<pvars, mvars>>

\* line 156: loss.backward() adds this window's gradient to .grad; the peers
\* of the group are taken to arrive at the all-reduce (TrainSync follows it)
StmtBackward ==
    /\ Runs("backward")
    /\ grad' = [passes |-> grad.passes + 1, clipped |-> FALSE]
    /\ Advance
    /\ UNCHANGED <<model_type, eval_rows, ep, pass, bptt2, hidden, data_len, fwds, visited>>
    /\ UNCHANGED <<pvars, mvars>>

\* line 159: torch.nn.utils.clip_grad_norm_(model.parameters(), args.clip)
StmtClip ==
    /\ Runs("clip_grad_norm_")
    /\ grad' = [grad EXCEPT !.clipped = TRUE]
    /\ Advance
    /\ UNCHANGED <<model_type, eval_rows, ep, pass, bptt2, hidden, data_len, fwds, visited>>
    /\ UNCHANGED <<pvars, mvars>>

\* line 160: optimizer.step() applies .grad as it is
StmtOptimizerStep ==
    /\ Runs("step")
    /\ Advance
    /\ UNCHANGED <<model_type, eval_rows, ep, pass, bptt2, hidden, data_len, grad,
                   fwds, visited>>
    /\ UNCHANGED <<pvars, mvars>>

\* the pass returns: train() (line 174) is followed by evaluate(val_data)
\* (line 218); the validation pass by lines 219-232, which Decide follows, and
\* the loop head; the test pass by the end of main()
PassReturn ==
    /\ at = "return"
    /\ IF pass.kind = "train"
       THEN /\ at' = "evaluate"
            /\ pass' = [no |-> pass.no + 1, kind |-> "val", width |-> EvalBatchSize,
                        rows |-> eval_rows]
       ELSE /\ at' = IF pass.kind = "val" THEN "loop" ELSE "done"
            /\ UNCHANGED pass
    /\ UNCHANGED <<model_type, eval_rows, stmt, ep, bptt2, win, hidden, data_len,
                   grad, ops, fwds, visited>>
    /\ UNCHANGED <<pvars, mvars>>

StepNext ==
    \/ MainLoop
    \/ TrainBegin
    \/ EvalBegin
    \/ ForNext
    \/ StmtGetBatch
    \/ StmtRepackage
    \/ StmtZeroGrad
    \/ StmtForward
    \/ StmtCriterion
    \/ StmtBackward
    \/ StmtClip
    \/ StmtOptimizerStep
    \/ PassReturn

SpecStep == StepInit /\ [][StepNext]_vars

(* --------------------- claims about the hidden state --------------------- *)
HasState == hidden.tag \in {"Tensor", "Tuple"}
Values(h) == [j \in DOMAIN Leaves(h) |-> Leaves(h)[j].val]
Widths(h) == [j \in DOMAIN Leaves(h) |-> Leaves(h)[j].width]
InTrain == pass.kind = "train" /\ at \in {"for", "body", "return"}
InPass == at \in {"for", "body", "return"}

\* C12: repackage_hidden is idempotent and keeps the structure. For a single
\* tensor and for a pair, the result has the same shape (single stays single,
\* pair stays pair), the same values and no history, and repackaging the
\* result again gives the same values and still no history.
C12_RepackageIdempotent ==
    HasState =>
        LET r == repackage_hidden(hidden)
        IN  /\ r.tag = hidden.tag
            /\ Len(Leaves(r)) = Len(Leaves(hidden))
            /\ Values(r) = Values(hidden)
            /\ Widths(r) = Widths(hidden)
            /\ Depth(r) = 0
            /\ Values(repackage_hidden(r)) = Values(r)
            /\ repackage_hidden(r).tag = r.tag
            /\ Depth(repackage_hidden(r)) = 0

C12_Witness ==
    /\ hidden.tag = "Tuple"
    /\ Len(hidden.items) = 2
    /\ Depth(hidden) >= 2
    /\ hidden.items[1].val # hidden.items[2].val
    /\ Runs("repackage_hidden")

C12_WitnessSingle ==
    /\ hidden.tag = "Tensor"
    /\ Depth(hidden) >= 2
    /\ Runs("repackage_hidden")

StepOrder ==
    <<"get_batch", "repackage_hidden", "zero_grad", "forward", "criterion",
      "backward", "clip_grad_norm_", "step">>

\* C13: every training step runs, in this order and each exactly once: slice
\* the window, repackage the hidden state, zero the gradients, forward pass,
\* loss, backward pass, gradient clipping, optimizer step. No optimizer step
\* runs without a clip between it and the preceding backward pass, and the
\* hidden state is repackaged before the forward pass that consumes it.
C13_StepOrder ==
    /\ [](InTrain =>
            /\ at = "body" => ops = SubSeq(StepOrder, 1, stmt - 1)
            /\ (at \in {"for", "return"} /\ win > 1) => ops = StepOrder)
    /\ [][(InTrain /\ at = "body") =>
            /\ Len(ops') = Len(ops) + 1
            /\ ops'[Len(ops')] = "step" =>
                 (grad.clipped /\ grad.passes = 1)
            /\ ops'[Len(ops')] = "forward" =>
                 (Depth(hidden) = 0 /\ ops[Len(ops)] \in {"repackage_hidden", "zero_grad"})]_vars

C13_Witness ==
    /\ InTrain
    /\ at = "for"
    /\ win = 3
    /\ Len(ops) = 8
    /\ ops[7] = "clip_grad_norm_"
    /\ grad = [passes |-> 1, clipped |-> TRUE]

\* C14: truncated backpropagation is bounded. With the history depth of the
\* hidden state counted as the rows of forward computation it is still linked
\* to, at every backward pass of train() the depth is at most the length of
\* the current window, itself at most W, after any number of steps: it never
\* accumulates across windows.
C14_BoundedHistory ==
    /\ (InTrain /\ Runs("backward")) =>
          /\ Depth(hidden) <= data_len
          /\ data_len <= bptt
    /\ HasState => Depth(hidden) <= bptt

C14_Witness ==
    /\ InTrain
    /\ Runs("backward")
    /\ win = 2
    /\ data_len >= 1
    /\ Depth(hidden) = data_len
    /\ Depth(fwds[1].out) = 2

\* C15: the hidden state lives for one pass only. Every call of train() and
\* of evaluate() starts from a zero hidden state of the pass's batch width;
\* the state fed to the forward pass of window k+1 has the values of the state
\* the forward pass of window k of the same pass returned; and no value from
\* another pass (training, validation, test, an earlier epoch) is ever the
\* input of a forward pass.
C15_HiddenPerPass ==
    InPass =>
        /\ (at = "for" /\ win = 1) =>
              \A j \in DOMAIN Leaves(hidden) : Leaves(hidden)[j] = Zeros(pass.width)
        /\ Len(Leaves(hidden)) = IF model_type = "LSTM" THEN 2 ELSE 1
        /\ Len(fwds) >= 1 =>
              LET n == Len(fwds)
                  in == Leaves(fwds[n].in)
                  out == Leaves(fwds[n].out)
              IN  /\ n = 1 => \A j \in DOMAIN in : in[j] = Zeros(pass.width)
                  /\ n > 1 => Values(fwds[n].in) = Values(fwds[n - 1].out)
                  /\ \A j \in DOMAIN in :
                        /\ in[j].val.pass \in {0, pass.no}
                        /\ in[j].val.win = n - 1 \/ (n = 1 /\ in[j].val.win = 0)
                  /\ \A j \in DOMAIN out :
                        out[j].val = [pass |-> pass.no, win |-> n, part |-> j]

C15_Witness ==
    /\ pass.kind = "test"
    /\ pass.no >= 5
    /\ model_type = "LSTM"
    /\ Len(fwds) = 2
    /\ fwds[2].in.items[1].val = [pass |-> pass.no, win |-> 1, part |-> 1]
    /\ at = "return"

\* C16 (the claim as stated): in train() the step offsets and their stride
\* come from the effective window size drawn at entry (W, or W/2), held fixed
\* for the epoch: effective_W * rank, then steps of effective_W * world_size,
\* below rows - 1. Stated for an effective window of a whole number of rows;
\* bptt2 is twice the effective window, so the offsets are doubled too.
C16_OffsetsFromEffective ==
    (InTrain /\ at = "return" /\ bptt2 % 2 = 0) =>
        [j \in DOMAIN visited |-> 2 * visited[j]]
            = Range(bptt2 * rank, 2 * (train_rows - 1), bptt2 * world_size)

====
